---- MODULE Spec2Model ----
(***************************************************************************)
(* Link resolution and click-ingestion store of the URL shortener.         *)
(*                                                                         *)
(* The schema (tables links and click_events, the unique constraint on     *)
(* short_code, the foreign key with ON DELETE CASCADE, the column defaults *)
(* and onupdate rules) is modelled from src/src/database/models.py, the    *)
(* seeding tool from src/scripts/seed_db.py.  The store operations         *)
(* (create, resolve, disable, enable, update_url, delete, record and the   *)
(* redirect path) have no code in the repository; they are modelled from   *)
(* the design document on top of the schema.                               *)
(***************************************************************************)
EXTENDS Integers, Sequences, FiniteSets, TLC

\* ------------------------------------------------------------------------
\* Bounds of the model
\* ------------------------------------------------------------------------
\* number of Link ids the create operation may allocate
MaxIds == 2
\* number of ClickEvent ids the record operation may allocate
MaxEvents == 2
\* last reading of the server clock
MaxTime == 1
\* number of callers with a request in flight next to the other operations
NumProcs == 1
\* number of callers racing to create a Link
NumRacers == 2
\* number of store operations that run next to the seeding script
MaxInterference == 1
\* number of candidates the Code Generator draws before it gives up
MaxAttempts == 3
\* number of requests that use a get_db session
NumRequests == 3

Procs == 1..NumProcs
Racers == 1..NumRacers
Callers == Procs \cup Racers
Requests == 1..NumRequests

\* ------------------------------------------------------------------------
\* Values
\* ------------------------------------------------------------------------
\* SQL NULL of the nullable columns ip_address and user_agent
Null == "<NULL>"

Upper == {"A","B","C","D","E","F","G","H","I","J","K","L","M",
          "N","O","P","Q","R","S","T","U","V","W","X","Y","Z"}
Lower == {"a","b","c","d","e","f","g","h","i","j","k","l","m",
          "n","o","p","q","r","s","t","u","v","w","x","y","z"}
Digits == {"0","1","2","3","4","5","6","7","8","9"}

\* characters a short code may contain
Charset == Upper \cup Lower \cup Digits \cup {"-", "_"}

MinCodeLen == 3
MaxCodeLen == 32

\* the charset/length rule of short_code; a code is a sequence of characters
ValidShortCode(code) ==
    /\ Len(code) >= MinCodeLen
    /\ Len(code) <= MaxCodeLen
    /\ \A i \in 1..Len(code) : code[i] \in Charset

\* original_url must be non-empty
ValidUrl(url) == url # ""

\* a string of n copies of the character c
RECURSIVE Repeat(_, _)
Repeat(c, n) == IF n = 0 THEN <<>> ELSE <<c>> \o Repeat(c, n - 1)

\* short codes callers supply: two well-formed ones, one too short, one
\* with a character outside the charset, one too long
CodeInputs == { <<"a","b","c">>,
                <<"d","o","c","s">>,
                <<"g","h">>,
                <<"a","!","c">>,
                Repeat("x", MaxCodeLen + 1) }

\* destination URLs callers supply, the empty one included
UrlInputs == { "", "https://a.example", "https://b.example" }

\* (ip_address, user_agent) pairs callers supply; both may be absent
ClientInputs == { <<Null, Null>>, <<"203.0.113.42", "curl/8.4.0">> }

\* ------------------------------------------------------------------------
\* State
\* ------------------------------------------------------------------------
VARIABLES
    links,        \* table links: id -> row
    events,       \* table click_events: id -> row
    nextId,       \* next fresh Link id (uuid4)
    nextEventId,  \* next fresh ClickEvent id (uuid4)
    now,          \* server clock, func.now()
    req,          \* per caller: the request in flight
    recorded,     \* per Link id: number of click events written for it
    resp,         \* per racing caller: the answer to its create call
    seed,         \* the seeding script: position, session, transaction
    budget,       \* store operations taken next to the seeding script
    answer,       \* the last answer of the redirect path
    gen,          \* the Code Generator: position, attempts, codes made
    health,       \* the dependencies' condition and the last health report
    sess          \* per request: its position and its get_db session

vars == <<links, events, nextId, nextEventId, now, req, recorded, resp,
          seed, budget, answer, gen, health, sess>>

\* ------------------------------------------------------------------------
\* Schema: table links
\* ------------------------------------------------------------------------
\* the column without unique=True: no INSERT is ever rejected
UniqueViolationOff(tbl, code) == FALSE

\* unique=True on links.short_code: an INSERT of code violates the
\* constraint when some row, active or not, already holds it
UniqueViolation(tbl, code) ==
    \E i \in DOMAIN tbl : tbl[i].short_code = code

\* server_default=func.now() of created_at, updated_at and clicked_at
ServerDefaultNow(t) == t

\* a row as INSERT stores it when only short_code, original_url and
\* is_custom_code are given: is_active defaults to true, both timestamps
\* to the server clock
NewLinkRow(code, url, custom, t) ==
    [ short_code     |-> code,
      original_url   |-> url,
      is_active      |-> TRUE,
      is_custom_code |-> custom,
      created_at     |-> ServerDefaultNow(t),
      updated_at     |-> ServerDefaultNow(t) ]

\* onupdate=func.now() on created_at as well as on updated_at
OnUpdateTouchesCreated(row, t) ==
    [row EXCEPT !.updated_at = t, !.created_at = t]

\* onupdate=func.now() of updated_at: an UPDATE of a row that does not set
\* updated_at itself sets it to the server clock
OnUpdateNow(row, t) == [row EXCEPT !.updated_at = t]

\* the UPDATE left out when the row already has the value (the unit of work
\* of the ORM sees no change and emits no statement)
UpdateIsActiveIfChanged(row, v, t) ==
    IF row.is_active = v THEN row ELSE OnUpdateNow([row EXCEPT !.is_active = v], t)

\* UPDATE links SET <col> = v WHERE id = ...
UpdateIsActive(row, v, t) == OnUpdateNow([row EXCEPT !.is_active = v], t)
UpdateUrl(row, url, t) == OnUpdateNow([row EXCEPT !.original_url = url], t)

\* ------------------------------------------------------------------------
\* Schema: table click_events
\* ------------------------------------------------------------------------
\* the foreign key without enforcement (SQLite without the foreign_keys
\* pragma): every link_id is accepted
ForeignKeyOff(tbl, link_id) == TRUE

\* ForeignKey("links.id") with foreign-key enforcement on: an INSERT into
\* click_events is accepted only when link_id is the id of a row of links
ForeignKeyOk(tbl, link_id) == link_id \in DOMAIN tbl

NewEventRow(link_id, ip, ua, t) ==
    [ link_id    |-> link_id,
      clicked_at |-> ServerDefaultNow(t),
      ip_address |-> ip,
      user_agent |-> ua ]

\* the cascade without its WHERE clause: every click_events row goes
CascadeDeleteAll(evs, id) == << >>

\* the foreign key without ondelete="CASCADE" and unenforced: the DELETE of
\* a link leaves its click_events rows where they are
CascadeDeleteOff(evs, id) == evs

\* ondelete="CASCADE": deleting the row id of links deletes, in the same
\* statement, every click_events row whose link_id is id
CascadeDelete(evs, id) ==
    LET keep == { e \in DOMAIN evs : evs[e].link_id # id }
    IN  [ e \in keep |-> evs[e] ]

DeleteRow(tbl, id) == [ i \in DOMAIN tbl \ {id} |-> tbl[i] ]

\* ------------------------------------------------------------------------
\* Queries
\* ------------------------------------------------------------------------
\* the query with a filter on is_active added
IdsOfCodeActive(tbl, code) ==
    { i \in DOMAIN tbl : tbl[i].short_code = code /\ tbl[i].is_active }

\* ids of the rows of links holding code (at most one, by the constraint)
IdsOfCode(tbl, code) == { i \in DOMAIN tbl : tbl[i].short_code = code }

\* ids of the click events of one link
EventsOf(evs, id) == { e \in DOMAIN evs : evs[e].link_id = id }

\* Analytics Aggregator: total count of clicks of one link
TotalCount(evs, id) == Cardinality(EventsOf(evs, id))

\* ------------------------------------------------------------------------
\* Seed definitions
\* ------------------------------------------------------------------------
\* _utc(days_ago, hours_ago): the clock reading t, in hours, moved back
utc(t, days_ago, hours_ago) == t - (24 * days_ago + hours_ago)

\* LINKS: the seed links, in the order of the source; created_at and
\* updated_at are given as days before the start of the script
LINKS == <<
    [ short_code |-> <<"g","h">>,
      original_url |-> "https://github.com",
      is_active |-> TRUE, is_custom_code |-> TRUE,
      created_days_ago |-> 30, updated_days_ago |-> 30 ],
    [ short_code |-> <<"d","o","c","s">>,
      original_url |-> "https://docs.python.org/3/",
      is_active |-> TRUE, is_custom_code |-> TRUE,
      created_days_ago |-> 25, updated_days_ago |-> 25 ],
    [ short_code |-> <<"y","t">>,
      original_url |-> "https://www.youtube.com",
      is_active |-> TRUE, is_custom_code |-> TRUE,
      created_days_ago |-> 20, updated_days_ago |-> 20 ],
    [ short_code |-> <<"s","o">>,
      original_url |-> "https://stackoverflow.com/questions",
      is_active |-> TRUE, is_custom_code |-> TRUE,
      created_days_ago |-> 18, updated_days_ago |-> 18 ],
    [ short_code |-> <<"s","a","-","p","r","o","m","o">>,
      original_url |-> "https://www.amazon.com/deals/storefront?tag=example-20",
      is_active |-> TRUE, is_custom_code |-> TRUE,
      created_days_ago |-> 10, updated_days_ago |-> 10 ],
    [ short_code |-> <<"x","7","q","2","p">>,
      original_url |-> "https://www.bbc.com/news/technology/article/2026-ai-breakthrough",
      is_active |-> TRUE, is_custom_code |-> FALSE,
      created_days_ago |-> 15, updated_days_ago |-> 15 ],
    [ short_code |-> <<"m","3","n","k","R">>,
      original_url |-> "https://medium.com/@dev/building-a-url-shortener-with-fastapi-abc123",
      is_active |-> TRUE, is_custom_code |-> FALSE,
      created_days_ago |-> 12, updated_days_ago |-> 12 ],
    [ short_code |-> <<"Z","p","9","w","L">>,
      original_url |-> "https://www.npmjs.com/package/zod",
      is_active |-> TRUE, is_custom_code |-> FALSE,
      created_days_ago |-> 8, updated_days_ago |-> 8 ],
    [ short_code |-> <<"t","4","R","q","x">>,
      original_url |-> "https://docs.sqlalchemy.org/en/20/orm/quickstart.html",
      is_active |-> TRUE, is_custom_code |-> FALSE,
      created_days_ago |-> 5, updated_days_ago |-> 5 ],
    [ short_code |-> <<"K","w","2","v","N">>,
      original_url |-> "https://hub.docker.com/_/postgres",
      is_active |-> TRUE, is_custom_code |-> FALSE,
      created_days_ago |-> 3, updated_days_ago |-> 3 ],
    [ short_code |-> <<"o","l","d","-","s","a","l","e">>,
      original_url |-> "https://www.example.com/promo/blackfriday-2024",
      is_active |-> FALSE, is_custom_code |-> TRUE,
      created_days_ago |-> 90, updated_days_ago |-> 60 ],
    [ short_code |-> <<"q","X","5","m","Y">>,
      original_url |-> "https://pastebin.com/raw/deprecated-snippet",
      is_active |-> FALSE, is_custom_code |-> FALSE,
      created_days_ago |-> 45, updated_days_ago |-> 20 ] >>

\* CLICK_EVENTS: (short_code, hours_ago, ip, user_agent), in the order of
\* the source
CLICK_EVENTS == <<
    << <<"g","h">>, 1, "203.0.113.42",
       "Mozilla/5.0 (Windows NT 10.0; Win64; x64) AppleWebKit/537.36 (KHTML, like Gecko) Chrome/121.0.0.0 Safari/537.36" >>,
    << <<"g","h">>, 3, "198.51.100.7",
       "Mozilla/5.0 (Macintosh; Intel Mac OS X 10_15_7) AppleWebKit/605.1.15 (KHTML, like Gecko) Version/17.2 Safari/605.1.15" >>,
    << <<"g","h">>, 6, "192.0.2.88",
       "Mozilla/5.0 (X11; Linux x86_64; rv:122.0) Gecko/20100101 Firefox/122.0" >>,
    << <<"g","h">>, 12, "2001:db8::1",
       "Mozilla/5.0 (iPhone; CPU iPhone OS 17_2 like Mac OS X) AppleWebKit/605.1.15 (KHTML, like Gecko) Version/17.2 Mobile/15E148 Safari/604.1" >>,
    << <<"g","h">>, 18, "203.0.113.5",
       "curl/8.4.0" >>,
    << <<"g","h">>, 24, "198.51.100.22",
       "Mozilla/5.0 (Windows NT 10.0; Win64; x64) AppleWebKit/537.36 (KHTML, like Gecko) Chrome/121.0.0.0 Safari/537.36" >>,
    << <<"g","h">>, 30, "192.0.2.10",
       "python-httpx/0.26.0" >>,
    << <<"d","o","c","s">>, 2, "203.0.113.99",
       "Mozilla/5.0 (Macintosh; Intel Mac OS X 10_15_7) AppleWebKit/537.36 (KHTML, like Gecko) Chrome/121.0.0.0 Safari/537.36" >>,
    << <<"d","o","c","s">>, 8, "198.51.100.3",
       "Mozilla/5.0 (X11; Ubuntu; Linux x86_64; rv:122.0) Gecko/20100101 Firefox/122.0" >>,
    << <<"d","o","c","s">>, 20, "192.0.2.55",
       "Mozilla/5.0 (Windows NT 10.0; Win64; x64; rv:122.0) Gecko/20100101 Firefox/122.0" >>,
    << <<"y","t">>, 1, "203.0.113.17",
       "Mozilla/5.0 (iPhone; CPU iPhone OS 17_2 like Mac OS X) AppleWebKit/605.1.15 (KHTML, like Gecko) Version/17.2 Mobile/15E148 Safari/604.1" >>,
    << <<"y","t">>, 4, "198.51.100.44",
       "Mozilla/5.0 (Linux; Android 14; Pixel 8) AppleWebKit/537.36 (KHTML, like Gecko) Chrome/121.0.6167.144 Mobile Safari/537.36" >>,
    << <<"y","t">>, 10, "192.0.2.200",
       "Mozilla/5.0 (Windows NT 10.0; Win64; x64) AppleWebKit/537.36 (KHTML, like Gecko) Chrome/121.0.0.0 Safari/537.36" >>,
    << <<"s","a","-","p","r","o","m","o">>, 1, "203.0.113.50",
       "Mozilla/5.0 (Windows NT 10.0; Win64; x64) AppleWebKit/537.36 (KHTML, like Gecko) Chrome/121.0.0.0 Safari/537.36" >>,
    << <<"s","a","-","p","r","o","m","o">>, 1, "198.51.100.71",
       "Mozilla/5.0 (Macintosh; Intel Mac OS X 10_15_7) AppleWebKit/605.1.15 (KHTML, like Gecko) Version/17.2 Safari/605.1.15" >>,
    << <<"s","a","-","p","r","o","m","o">>, 2, "192.0.2.130",
       "Mozilla/5.0 (iPhone; CPU iPhone OS 17_2 like Mac OS X) AppleWebKit/605.1.15 (KHTML, like Gecko) Version/17.2 Mobile/15E148 Safari/604.1" >>,
    << <<"s","a","-","p","r","o","m","o">>, 2, "203.0.113.88",
       "Mozilla/5.0 (Linux; Android 14; SM-S918B) AppleWebKit/537.36 (KHTML, like Gecko) Chrome/121.0.6167.144 Mobile Safari/537.36" >>,
    << <<"s","a","-","p","r","o","m","o">>, 3, "198.51.100.9",
       "Mozilla/5.0 (Windows NT 10.0; Win64; x64) AppleWebKit/537.36 (KHTML, like Gecko) Chrome/121.0.0.0 Safari/537.36" >>,
    << <<"x","7","q","2","p">>, 5, "192.0.2.77",
       "Mozilla/5.0 (Macintosh; Intel Mac OS X 10_15_7) AppleWebKit/537.36 (KHTML, like Gecko) Chrome/121.0.0.0 Safari/537.36" >>,
    << <<"x","7","q","2","p">>, 14, "203.0.113.33",
       "Mozilla/5.0 (X11; Linux x86_64; rv:122.0) Gecko/20100101 Firefox/122.0" >>,
    << <<"m","3","n","k","R">>, 7, "198.51.100.60",
       "Mozilla/5.0 (Windows NT 10.0; Win64; x64) AppleWebKit/537.36 (KHTML, like Gecko) Chrome/121.0.0.0 Safari/537.36" >>,
    << <<"Z","p","9","w","L">>, 2, "192.0.2.44",
       "curl/8.4.0" >>,
    << <<"Z","p","9","w","L">>, 9, "203.0.113.21",
       "Mozilla/5.0 (X11; Linux x86_64) AppleWebKit/537.36 (KHTML, like Gecko) Chrome/121.0.0.0 Safari/537.36" >>,
    << <<"o","l","d","-","s","a","l","e">>, 80 * 24, "198.51.100.15",
       "Mozilla/5.0 (Windows NT 10.0; Win64; x64) AppleWebKit/537.36 (KHTML, like Gecko) Chrome/118.0.0.0 Safari/537.36" >>,
    << <<"o","l","d","-","s","a","l","e">>, 85 * 24, "192.0.2.66",
       "Mozilla/5.0 (Macintosh; Intel Mac OS X 10_15_7) AppleWebKit/605.1.15 (KHTML, like Gecko) Version/16.6 Safari/605.1.15" >>,
    << <<"t","4","R","q","x">>, 1, Null,
       Null >> >>

\* the runs of the seeding script: a first and a second one, which may
\* overlap
Seeders == {1, 2}

\* ids uuid4 gives the Links and ClickEvents of run s of the script: fresh
\* ones, apart from those of the create and record operations
SeedId(s, k) == MaxIds + (s - 1) * Len(LINKS) + k
SeedEventId(s, k) == MaxEvents + (s - 1) * Len(CLICK_EVENTS) + k

\* codes the Code Generator draws its candidates from: one that callers also
\* supply as a custom code, and one of the shape of the generated seed codes
GenCodes == { <<"a","b","c">>, <<"x","7","q","2","p">> }

\* id uuid4 gives the k-th Link the Code Generator makes
GenId(k) == MaxIds + Cardinality(Seeders) * Len(LINKS) + k

\* every Link id of the model
AllIds == 1..GenId(Cardinality(GenCodes))

\* ------------------------------------------------------------------------
\* Requests and results
\* ------------------------------------------------------------------------
NoId == 0

\* a caller with no request in flight
IdleReq ==
    [ op |-> "idle", code |-> <<>>, url |-> "",
      link_id |-> NoId, status |-> 0, location |-> "" ]

\* the answer a caller keeps of its create call
NoResp == [ code |-> <<>>, result |-> "none" ]

\* no redirect answered yet
NoAnswer == [ status |-> 0, location |-> "", recorded |-> FALSE ]

\* callers that hold a reserved Link id / ClickEvent id for a pending insert
PendingCreates == { p \in Callers : req[p].op = "create" }
PendingRecords == { p \in Callers : req[p].op = "redirect" }

\* a run of the seeding script that has not started; when it has ended,
\* pc is "done" (committed) or "failed" (rolled back, exception raised) and
\* the session is closed
IdleSeed ==
    [ pc |-> "idle", i |-> 0, link_map |-> << >>, tx |-> << >>,
      importTime |-> 0, discarded |-> {} ]

\* an INSERT of code waits while another session holds an uncommitted row
\* with the same code: the unique index decides when that session ends
InsertWaits(self, code) ==
    \E s \in Seeders \ {self} : UniqueViolation(seed[s].tx, code)

\* the Code Generator before its first call; pc is "try" while it draws
\* candidates, then "done" (a Link was made) or "failed" (CapacityError)
IdleGen == [ pc |-> "idle", attempts |-> 0, url |-> "", made |-> << >> ]

\* database and Redis reachable, no health function called yet; db and
\* redis are "up" or the exception a connect, query or ping raises
NoReport ==
    [ fn |-> "none", client |-> FALSE, db_arg |-> FALSE, raised |-> FALSE,
      ok |-> FALSE, status |-> "none", checks |-> << >>, http |-> 0 ]

InitHealth == [ db |-> "up", redis |-> "up", out |-> NoReport ]

\* a request that has not arrived; session is "none", "open" or "closed",
\* outcome tells how its handler ended
IdleSess ==
    [ pc |-> "idle", session |-> "none", closes |-> 0, outcome |-> "none" ]

Init ==
    /\ links = << >>
    /\ events = << >>
    /\ nextId = 1
    /\ nextEventId = 1
    /\ now = 0
    /\ req = [ p \in Callers |-> IdleReq ]
    /\ recorded = [ i \in AllIds |-> 0 ]
    /\ resp = [ p \in Callers |-> NoResp ]
    /\ seed = [ s \in Seeders |-> IdleSeed ]
    /\ budget = 0
    /\ answer = NoAnswer
    /\ gen = IdleGen
    /\ health = InitHealth
    /\ sess = [ r \in Requests |-> IdleSess ]

\* ------------------------------------------------------------------------
\* Link Store
\* ------------------------------------------------------------------------
\* the answer of create before it reaches the database
CreateCheck(code, url) ==
    IF ValidShortCode(code) /\ ValidUrl(url) THEN "ok" ELSE "ValidationError"

\* the answer of the INSERT of create
InsertResult(tbl, code) ==
    IF UniqueViolation(tbl, code) THEN "ConflictError" ELSE "ok"

\* the answer of an operation that names a Link by its id
LookupResult(tbl, id) == IF id \in DOMAIN tbl THEN "ok" ELSE "NotFoundError"

\* the answer of update_url
UpdateUrlResult(tbl, id, url) ==
    IF id \notin DOMAIN tbl THEN "NotFoundError"
    ELSE IF ~ValidUrl(url) THEN "ValidationError" ELSE "ok"

\* create(short_code, original_url, custom=true), first half: validation;
\* a rejected call changes nothing
create_call(p, code, url) ==
    /\ req[p].op = "idle"
    /\ nextId + Cardinality(PendingCreates) <= MaxIds
    /\ IF CreateCheck(code, url) = "ok"
       THEN req' = [req EXCEPT ![p] =
                      [IdleReq EXCEPT !.op = "create",
                                      !.code = code, !.url = url]]
       ELSE req' = req
    /\ UNCHANGED <<links, events, nextId, nextEventId, now, recorded>>

\* create, second half: one INSERT in one commit; a violation of the
\* unique constraint is reported as ConflictError
create_insert(p) ==
    /\ req[p].op = "create"
    /\ ~InsertWaits(0, req[p].code)
    /\ IF InsertResult(links, req[p].code) = "ok"
       THEN /\ links' = links @@
                  (nextId :> NewLinkRow(req[p].code, req[p].url, TRUE, now))
            /\ nextId' = nextId + 1
       ELSE UNCHANGED <<links, nextId>>
    /\ req' = [req EXCEPT ![p] = IdleReq]
    /\ UNCHANGED <<events, nextEventId, now, recorded>>

\* the Link resolve(short_code) returns, as a set of 0 or 1 ids
ResolveIds(tbl, code) == IdsOfCode(tbl, code)

\* resolve(short_code): the Link holding the code, active or not; a read
resolve(code) ==
    /\ ResolveIds(links, code) \subseteq DOMAIN links
    /\ UNCHANGED <<links, events, nextId, nextEventId, now, req, recorded>>

\* disable(id) / enable(id): one UPDATE of is_active in one commit
set_active(id, v) ==
    /\ IF LookupResult(links, id) = "ok"
       THEN links' = [links EXCEPT ![id] = UpdateIsActive(links[id], v, now)]
       ELSE links' = links
    /\ UNCHANGED <<events, nextId, nextEventId, now, req, recorded>>

disable(id) == set_active(id, FALSE)

enable(id) == set_active(id, TRUE)

\* update_url(id, new_url): one UPDATE of original_url in one commit
update_url(id, url) ==
    /\ IF UpdateUrlResult(links, id, url) = "ok"
       THEN links' = [links EXCEPT ![id] = UpdateUrl(links[id], url, now)]
       ELSE links' = links
    /\ UNCHANGED <<events, nextId, nextEventId, now, req, recorded>>

\* delete(id): one DELETE in one commit; the foreign key cascades
delete(id) ==
    /\ IF LookupResult(links, id) = "ok"
       THEN /\ links' = DeleteRow(links, id)
            /\ events' = CascadeDelete(events, id)
       ELSE UNCHANGED <<links, events>>
    /\ UNCHANGED <<nextId, nextEventId, now, req, recorded>>

\* ------------------------------------------------------------------------
\* Click Recorder
\* ------------------------------------------------------------------------
\* the answer of the INSERT of record
RecordResult(tbl, link_id) ==
    IF ForeignKeyOk(tbl, link_id) THEN "ok" ELSE "IntegrityError"

\* the INSERT of record(link_id, ip, user_agent) in one commit; clicked_at
\* is the server clock; the foreign key rejects an id that is not a Link's
RecordInsert(link_id, client) ==
    IF RecordResult(links, link_id) = "ok"
    THEN /\ events' = events @@
               (nextEventId :> NewEventRow(link_id, client[1], client[2], now))
         /\ nextEventId' = nextEventId + 1
         /\ recorded' = [recorded EXCEPT ![link_id] = @ + 1]
    ELSE UNCHANGED <<events, nextEventId, recorded>>

\* record(link_id, ip, user_agent) called on its own; link_id is an id the
\* caller got from an earlier resolve, whose Link may be gone by now
record(link_id, client) ==
    /\ nextEventId + Cardinality(PendingRecords) <= MaxEvents
    /\ RecordInsert(link_id, client)
    /\ UNCHANGED <<links, nextId, now, req>>

\* ------------------------------------------------------------------------
\* Redirect path (caller of resolve and record)
\* ------------------------------------------------------------------------
\* the answer for a resolved Link: 404 when soft-disabled, else a redirect
RedirectStatus(row) == IF row.is_active THEN 302 ELSE 404

\* the Location header filled in whatever is_active says
RedirectLocationAlways(row) == row.original_url

RedirectLocation(row) == IF row.is_active THEN row.original_url ELSE ""

\* redirect, first half: resolve the code and decide the answer; when the
\* Link exists, active or not, the click is recorded next; when it does not,
\* the answer is 404 at once
redirect(p, code) ==
    /\ req[p].op = "idle"
    /\ nextEventId + Cardinality(PendingRecords) <= MaxEvents
    /\ IF ResolveIds(links, code) = {}
       THEN req' = req
       ELSE \E i \in ResolveIds(links, code) :
            req' = [req EXCEPT ![p] =
                      [IdleReq EXCEPT !.op = "redirect", !.code = code,
                                      !.link_id = i,
                                      !.status = RedirectStatus(links[i]),
                                      !.location = RedirectLocation(links[i])]]
    /\ UNCHANGED <<links, events, nextId, nextEventId, now, recorded>>

\* redirect, second half: record the click, then answer
redirect_record(p, client) ==
    /\ req[p].op = "redirect"
    /\ RecordInsert(req[p].link_id, client)
    /\ req' = [req EXCEPT ![p] = IdleReq]
    /\ UNCHANGED <<links, nextId, now>>

\* redirect, second half when the write of the click event fails (store
\* unreachable or timed out): no event is added, the answer is the same
redirect_record_fail(p) ==
    /\ req[p].op = "redirect"
    /\ req' = [req EXCEPT ![p] = IdleReq]
    /\ UNCHANGED <<links, events, nextId, nextEventId, now, recorded>>

\* ------------------------------------------------------------------------
\* Clock
\* ------------------------------------------------------------------------
Tick ==
    /\ now < MaxTime
    /\ now' = now + 1
    /\ UNCHANGED <<links, events, nextId, nextEventId, req, recorded>>

\* ------------------------------------------------------------------------
\* Seeding script: seed()
\* ------------------------------------------------------------------------
\* Link(**data): every column is given, so no default applies
SeedLinkRow(data, t) ==
    [ short_code     |-> data.short_code,
      original_url   |-> data.original_url,
      is_active      |-> data.is_active,
      is_custom_code |-> data.is_custom_code,
      created_at     |-> utc(t, data.created_days_ago, 0),
      updated_at     |-> utc(t, data.updated_days_ago, 0) ]

\* the position after link number i of the loop over LINKS
AfterLink(i) == IF i < Len(LINKS) THEN "query" ELSE "commit"

\* an except clause that re-raises without db.rollback(), in a script that
\* does not close its session: the flushed rows stay in the open transaction
SeedFailedNoRollback(s) ==
    seed' = [seed EXCEPT ![s].pc = "failed"]

\* except: rollback, raise; finally: close. The ids of the rows the rollback
\* discards are kept in discarded
SeedFailed(s) ==
    seed' = [seed EXCEPT ![s] = [IdleSeed EXCEPT !.pc = "failed",
                                   !.discarded = DOMAIN seed[s].tx]]

\* the script starts: import (LINKS takes its timestamps), create_tables(),
\* SessionLocal()
seed_begin(s) ==
    /\ seed[s].pc = "idle"
    /\ seed' = [seed EXCEPT ![s] =
                  [ pc |-> "query", i |-> 1,
                    link_map |-> << >>, tx |-> << >>, importTime |-> now,
                    discarded |-> {} ]]
    /\ UNCHANGED <<links, events, nextId, nextEventId, now, req, recorded>>

\* db.query(Link).filter_by(short_code=...).first(): the committed rows and
\* the rows this session has flushed
seed_query(s) ==
    /\ seed[s].pc = "query"
    /\ LET i        == seed[s].i
           code     == LINKS[i].short_code
           existing == IdsOfCode(links, code) \cup IdsOfCode(seed[s].tx, code)
       IN  IF existing # {}
           THEN \E id \in existing :
                  seed' = [seed EXCEPT
                             ![s].link_map = (code :> id) @@ seed[s].link_map,
                             ![s].i = i + 1,
                             ![s].pc = AfterLink(i)]
           ELSE seed' = [seed EXCEPT ![s].pc = "flush"]
    /\ UNCHANGED <<links, events, nextId, nextEventId, now, req, recorded>>

\* db.add(link); db.flush(): the INSERT, inside the open transaction
seed_flush(s) ==
    /\ seed[s].pc = "flush"
    /\ LET i    == seed[s].i
           code == LINKS[i].short_code
           id   == SeedId(s, i)
       IN  /\ ~InsertWaits(s, code)
           /\ IF UniqueViolation(links, code) \/ UniqueViolation(seed[s].tx, code)
              THEN SeedFailed(s)
              ELSE seed' = [seed EXCEPT
                       ![s].tx = (id :> SeedLinkRow(LINKS[i], seed[s].importTime))
                                 @@ seed[s].tx,
                       ![s].link_map = (code :> id) @@ seed[s].link_map,
                       ![s].i = i + 1,
                       ![s].pc = AfterLink(i)]
    /\ UNCHANGED <<links, events, nextId, nextEventId, now, req, recorded>>

\* the ClickEvent rows the loop over CLICK_EVENTS adds to the session
SeedEventRows(s) ==
    LET ks == { k \in 1..Len(CLICK_EVENTS) :
                  CLICK_EVENTS[k][1] \in DOMAIN seed[s].link_map }
    IN  [ e \in { SeedEventId(s, k) : k \in ks } |->
            LET k == e - SeedEventId(s, 0)
            IN  [ link_id    |-> seed[s].link_map[CLICK_EVENTS[k][1]],
                  clicked_at |-> utc(now, 0, CLICK_EVENTS[k][2]),
                  ip_address |-> CLICK_EVENTS[k][3],
                  user_agent |-> CLICK_EVENTS[k][4] ] ]

\* the loop over CLICK_EVENTS and db.commit(): the click events are flushed
\* and checked against the foreign key, then everything is committed
seed_commit(s) ==
    /\ seed[s].pc = "commit"
    /\ \E rows \in {SeedEventRows(s)}, after \in {seed[s].tx @@ links} :
           IF \A e \in DOMAIN rows : ForeignKeyOk(after, rows[e].link_id)
           THEN /\ links' = after
                /\ events' = rows @@ events
                /\ recorded' = [ i \in AllIds |->
                      recorded[i] +
                      Cardinality({ e \in DOMAIN rows : rows[e].link_id = i }) ]
                /\ seed' = [seed EXCEPT ![s] = [IdleSeed EXCEPT !.pc = "done"]]
           ELSE /\ SeedFailed(s)
                /\ UNCHANGED <<links, events, recorded>>
    /\ UNCHANGED <<nextId, nextEventId, now, req>>

\* ------------------------------------------------------------------------
\* Specification of the store under concurrent callers
\* ------------------------------------------------------------------------
\* ids callers pass: every id create may ever allocate, and one that no
\* Link ever has
IdInputs == 0..MaxIds

\* a step of a caller of the Link Store, the Click Recorder or the redirect
\* path; all of them read the same clock
StoreOp ==
    \/ \E p \in Procs, code \in CodeInputs, url \in UrlInputs :
          create_call(p, code, url)
    \/ \E p \in Procs : create_insert(p)
    \/ \E code \in CodeInputs : resolve(code)
    \/ \E id \in IdInputs : disable(id)
    \/ \E id \in IdInputs : enable(id)
    \/ \E id \in IdInputs, url \in UrlInputs : update_url(id, url)
    \/ \E id \in IdInputs : delete(id)
    \/ \E id \in IdInputs, client \in ClientInputs : record(id, client)
    \/ \E p \in Procs, code \in CodeInputs : redirect(p, code)
    \/ \E p \in Procs, client \in ClientInputs : redirect_record(p, client)
    \/ \E p \in Procs : redirect_record_fail(p)

Next == StoreOp /\ UNCHANGED <<resp, seed, budget, answer, gen, health, sess>>

Spec == Init /\ [][Next]_vars

\* ------------------------------------------------------------------------
\* Specification of callers racing to create
\* ------------------------------------------------------------------------
\* create by a caller that keeps the answer
answered_call(p, code, url) ==
    /\ create_call(p, code, url)
    /\ resp' = [resp EXCEPT ![p] =
                  [ code |-> code,
                    result |-> IF CreateCheck(code, url) = "ok"
                               THEN "pending" ELSE "ValidationError" ]]

answered_insert(p) ==
    /\ create_insert(p)
    /\ resp' = [resp EXCEPT ![p].result = InsertResult(links, req[p].code)]

\* a racer calls create once
race_call(p, code, url) ==
    /\ resp[p].result = "none"
    /\ answered_call(p, code, url)

RaceNext ==
    \/ /\ \E p \in Racers, code \in CodeInputs, url \in UrlInputs :
             race_call(p, code, url)
       /\ UNCHANGED <<seed, budget, answer, gen, health, sess>>
    \/ /\ \E p \in Racers : answered_insert(p)
       /\ UNCHANGED <<seed, budget, answer, gen, health, sess>>

RaceSpec == Init /\ [][RaceNext]_vars

\* ------------------------------------------------------------------------
\* Specification of the seeding script next to store operations
\* ------------------------------------------------------------------------
\* store operations that run while the script runs, on any Link there is
Interference ==
    \/ /\ \E p \in Procs, code \in CodeInputs, url \in UrlInputs :
             answered_call(p, code, url)
    \/ /\ \/ \E id \in DOMAIN links : disable(id)
          \/ \E id \in DOMAIN links : enable(id)
          \/ \E id \in DOMAIN links, url \in UrlInputs : update_url(id, url)
          \/ \E id \in DOMAIN links : delete(id)
          \/ \E id \in DOMAIN links, client \in ClientInputs : record(id, client)
          \/ Tick
       /\ UNCHANGED resp

SeedNext ==
    \/ /\ \E s \in Seeders :
             seed_begin(s) \/ seed_query(s) \/ seed_flush(s) \/ seed_commit(s)
       /\ UNCHANGED <<resp, budget, answer, gen, health, sess>>
    \/ /\ budget < MaxInterference
       /\ budget' = budget + 1
       /\ Interference
       /\ UNCHANGED <<seed, answer, gen, health, sess>>
    \/ /\ \E p \in Procs : answered_insert(p)
       /\ UNCHANGED <<seed, budget, answer, gen, health, sess>>

SeedSpec == Init /\ [][SeedNext]_vars

\* ------------------------------------------------------------------------
\* Specification of the redirect path with its answers
\* ------------------------------------------------------------------------
\* the failure of the click record reaching the caller as a server error
AnswerPropagatesFailure(r, result) ==
    IF result = "ok"
    THEN [ status |-> r.status, location |-> r.location, recorded |-> TRUE ]
    ELSE [ status |-> 500, location |-> "", recorded |-> FALSE ]

\* the answer of a redirect whose click record ended with result: what was
\* decided when the code was resolved; a failure is swallowed
AnswerAfterRecord(r, result) ==
    [ status |-> r.status, location |-> r.location,
      recorded |-> (result = "ok") ]

\* redirect, second half, with the answer the caller receives
answered_record(p, client) ==
    /\ redirect_record(p, client)
    /\ answer' = AnswerAfterRecord(req[p], RecordResult(links, req[p].link_id))

answered_record_fail(p) ==
    /\ redirect_record_fail(p)
    /\ answer' = AnswerAfterRecord(req[p], "StoreUnavailableError")

\* redirects next to the operations that make, soft-disable and remove Links
RedirectNext ==
    /\ \/ /\ \/ \E p \in Procs, code \in CodeInputs, url \in UrlInputs :
                   create_call(p, code, url)
             \/ \E p \in Procs : create_insert(p)
             \/ \E id \in IdInputs : disable(id)
             \/ \E id \in IdInputs : delete(id)
             \/ \E p \in Procs, code \in CodeInputs : redirect(p, code)
          /\ UNCHANGED answer
       \/ \E p \in Procs, client \in ClientInputs : answered_record(p, client)
       \/ \E p \in Procs : answered_record_fail(p)
    /\ UNCHANGED <<resp, seed, budget, gen, health, sess>>

RedirectSpec == Init /\ [][RedirectNext]_vars

\* ------------------------------------------------------------------------
\* Code Generator: create without an explicit code
\* ------------------------------------------------------------------------
\* create(original_url) without a code: validation, then the generator
gen_call(url) ==
    /\ gen.pc \in {"idle", "done", "failed"}
    /\ IF ValidUrl(url)
       THEN gen' = [gen EXCEPT !.pc = "try", !.attempts = 0, !.url = url]
       ELSE gen' = gen
    /\ UNCHANGED <<links, events, nextId, nextEventId, now, req, recorded>>

\* one attempt: a fresh random candidate and its INSERT (is_custom_code
\* false); on a collision with the code of a Link the generator retries
gen_try(c) ==
    /\ gen.pc = "try"
    /\ gen.attempts < MaxAttempts
    /\ ~InsertWaits(0, c)
    /\ IF InsertResult(links, c) = "ok"
       THEN /\ links' = links @@
                  (GenId(Len(gen.made) + 1) :> NewLinkRow(c, gen.url, FALSE, now))
            /\ gen' = [gen EXCEPT !.pc = "done", !.attempts = @ + 1,
                                  !.made = Append(@, c)]
       ELSE /\ links' = links
            /\ gen' = [gen EXCEPT !.attempts = @ + 1]
    /\ UNCHANGED <<events, nextId, nextEventId, now, req, recorded>>

\* every attempt collided: CapacityError, nothing inserted
gen_fail ==
    /\ gen.pc = "try"
    /\ gen.attempts = MaxAttempts
    /\ gen' = [gen EXCEPT !.pc = "failed"]
    /\ UNCHANGED <<links, events, nextId, nextEventId, now, req, recorded>>

\* a step of the running generator
GenStep ==
    /\ (\E c \in GenCodes : gen_try(c)) \/ gen_fail
    /\ UNCHANGED <<resp, seed, budget, answer, health, sess>>

\* the generator next to creates with custom codes and soft-disables; no
\* Link is deleted
GenNext ==
    \/ /\ \E url \in UrlInputs : gen_call(url)
       /\ UNCHANGED <<resp, seed, budget, answer, health, sess>>
    \/ GenStep
    \/ /\ \/ \E p \in Procs, code \in CodeInputs, url \in UrlInputs :
                create_call(p, code, url)
          \/ \E p \in Procs : create_insert(p)
          \/ \E id \in DOMAIN links : disable(id)
       /\ UNCHANGED <<resp, seed, budget, answer, gen, health, sess>>

\* the generator runs in the request that called it and is not suspended
\* for ever
GenSpec == Init /\ [][GenNext]_vars /\ WF_vars(GenStep)

\* ------------------------------------------------------------------------
\* Health checks
\* ------------------------------------------------------------------------
\* conditions of the database: reachable, engine.connect() raises, or the
\* query raises; of Redis: reachable, or ping() raises
DbStates == {"up", "connect_error", "query_error"}
RedisStates == {"up", "ping_error"}

\* health_check() with the query outside the try block: its exception
\* reaches the caller
health_check_query_uncaught(db) ==
    IF db = "connect_error" THEN [ raised |-> FALSE, value |-> FALSE ]
    ELSE IF db = "query_error" THEN [ raised |-> TRUE, value |-> FALSE ]
    ELSE [ raised |-> FALSE, value |-> TRUE ]

\* health_check(): connect and SELECT 1 inside try; except Exception
\* returns False
health_check(db) ==
    IF db = "connect_error" \/ db = "query_error"
    THEN [ raised |-> FALSE, value |-> FALSE ]
    ELSE [ raised |-> FALSE, value |-> TRUE ]

\* check_database(): delegates to health_check
check_database(db) == health_check(db)

\* check_redis(redis_client): True without a client, else whether ping()
\* returns; client tells whether a client is supplied
check_redis(client, redis) ==
    IF ~client THEN TRUE
    ELSE IF redis = "up" THEN TRUE ELSE FALSE

\* "ok" if ... else "error"
OkOrError(b) == IF b THEN "ok" ELSE "error"

\* "healthy" if all(v == "ok" for v in checks.values()) else "degraded"
Overall(checks) ==
    IF \A k \in DOMAIN checks : checks[k] = "ok" THEN "healthy" ELSE "degraded"

\* a report of a health function that returned a payload
Report(fn, client, db_arg, checks) ==
    [ NoReport EXCEPT !.fn = fn, !.client = client, !.db_arg = db_arg,
                      !.status = Overall(checks), !.checks = checks ]

\* a health function left by an exception
Raised(fn, client, db_arg) ==
    [ NoReport EXCEPT !.fn = fn, !.client = client, !.db_arg = db_arg,
                      !.raised = TRUE ]

\* get_health_status_async(redis_client)
get_health_status_async(client, db, redis) ==
    LET db_ok    == check_database(db)
        redis_ok == check_redis(client, redis)
        checks   == ("database" :> OkOrError(db_ok.value)) @@
                    (IF client THEN ("redis" :> OkOrError(redis_ok)) ELSE << >>)
    IN  IF db_ok.raised
        THEN Raised("get_health_status_async", client, FALSE)
        ELSE Report("get_health_status_async", client, FALSE, checks)

\* get_health_status(db, redis): db_arg and client tell whether a session
\* and a Redis client are passed; the Redis entry is "ok" unchecked
get_health_status(db_arg, client, db, redis) ==
    LET db_ok  == check_database(db)
        checks == (IF db_arg THEN ("database" :> OkOrError(db_ok.value))
                             ELSE << >>) @@
                  (IF client THEN ("redis" :> "ok") ELSE << >>)
    IN  IF db_arg /\ db_ok.raised
        THEN Raised("get_health_status", client, db_arg)
        ELSE Report("get_health_status", client, db_arg, checks)

\* the status code taken from the truth value of the status string
StatusCodeTruthy(status) == IF status # "" THEN 200 ELSE 503

\* 200 if payload["status"] == "healthy" else 503
StatusCode(status) == IF status = "healthy" THEN 200 ELSE 503

\* GET /health: get_health_status_async() without a Redis client; an
\* exception would leave the handler without a payload (500)
health_endpoint(db, redis) ==
    LET payload == get_health_status_async(FALSE, db, redis)
    IN  IF payload.raised
        THEN [ payload EXCEPT !.fn = "health", !.http = 500 ]
        ELSE [ payload EXCEPT !.fn = "health",
                              !.http = StatusCode(payload.status) ]

\* the store as the health functions leave it
HealthFrame ==
    UNCHANGED <<links, events, nextId, nextEventId, now, req, recorded>>

\* the database or Redis becomes unreachable or reachable again
db_change(d) ==
    /\ d # health.db
    /\ health' = [health EXCEPT !.db = d]
    /\ HealthFrame

redis_change(r) ==
    /\ r # health.redis
    /\ health' = [health EXCEPT !.redis = r]
    /\ HealthFrame

call_health_check ==
    /\ health' = [health EXCEPT !.out =
                    LET r == health_check(health.db)
                    IN  [ NoReport EXCEPT !.fn = "health_check",
                                          !.raised = r.raised, !.ok = r.value ]]
    /\ HealthFrame

call_health ==
    /\ health' = [health EXCEPT !.out = health_endpoint(health.db, health.redis)]
    /\ HealthFrame

call_get_health_status_async(client) ==
    /\ health' = [health EXCEPT !.out =
                    get_health_status_async(client, health.db, health.redis)]
    /\ HealthFrame

call_get_health_status(db_arg, client) ==
    /\ health' = [health EXCEPT !.out =
                    get_health_status(db_arg, client, health.db, health.redis)]
    /\ HealthFrame

\* the health functions next to creates and click records, while the
\* dependencies come and go
HealthNext ==
    \/ /\ \/ \E d \in DbStates : db_change(d)
          \/ \E r \in RedisStates : redis_change(r)
          \/ call_health_check
          \/ call_health
          \/ \E client \in BOOLEAN : call_get_health_status_async(client)
          \/ \E db_arg \in BOOLEAN, client \in BOOLEAN :
                call_get_health_status(db_arg, client)
       /\ UNCHANGED <<resp, seed, budget, answer, gen, sess>>
    \/ /\ \/ \E p \in Procs, code \in CodeInputs, url \in UrlInputs :
                create_call(p, code, url)
          \/ \E p \in Procs : create_insert(p)
          \/ \E id \in IdInputs : record(id, <<Null, Null>>)
       /\ UNCHANGED <<resp, seed, budget, answer, gen, health, sess>>

HealthSpec == Init /\ [][HealthNext]_vars

\* ------------------------------------------------------------------------
\* Sessions of get_db
\* ------------------------------------------------------------------------
\* get_db with the close after the yield but outside a finally clause: an
\* exception thrown in at the yield skips it
get_db_exit_no_finally(s, raised) ==
    IF raised THEN [s EXCEPT !.pc = "finished"]
    ELSE [s EXCEPT !.pc = "finished", !.session = "closed", !.closes = @ + 1]

\* get_db after the yield: finally: db.close(), whether the generator is
\* resumed (the handler returned) or an exception is thrown in (it raised)
get_db_exit(s, raised) ==
    [s EXCEPT !.pc = "finished", !.session = "closed", !.closes = @ + 1]

\* the store as a request leaves it when its handler touches no row
SessFrame ==
    UNCHANGED <<links, events, nextId, nextEventId, now, req, recorded, resp,
                seed, budget, answer, gen, health>>

\* the request arrives: get_db runs up to the yield, db = SessionLocal()
get_db_enter(r) ==
    /\ sess[r].pc = "idle"
    /\ sess' = [sess EXCEPT ![r] = [@ EXCEPT !.pc = "yielded",
                                             !.session = "open"]]
    /\ SessFrame

\* the handler that received the session returns, or raises
handler_return(r) ==
    /\ sess[r].pc = "yielded"
    /\ sess' = [sess EXCEPT ![r] = [@ EXCEPT !.pc = "returned",
                                             !.outcome = "returned"]]
    /\ SessFrame

handler_raise(r) ==
    /\ sess[r].pc = "yielded"
    /\ sess' = [sess EXCEPT ![r] = [@ EXCEPT !.pc = "raised",
                                             !.outcome = "raised"]]
    /\ SessFrame

\* the request finishes: the framework leaves the dependency
get_db_leave(r) ==
    /\ sess[r].pc \in {"returned", "raised"}
    /\ sess' = [sess EXCEPT ![r] = get_db_exit(@, sess[r].pc = "raised")]
    /\ SessFrame

\* a step of request r
RequestStep(r) ==
    get_db_enter(r) \/ handler_return(r) \/ handler_raise(r) \/ get_db_leave(r)

SessNext == \E r \in Requests : RequestStep(r)

\* every request that has arrived is run to its end
SessSpec ==
    Init /\ [][SessNext]_vars /\ \A r \in Requests : WF_vars(RequestStep(r))

\* ========================================================================
\* Properties
\* ========================================================================

\* C1: in every reachable state no two Link rows, active or soft-disabled,
\* have the same short_code (checked under SeedSpec: two runs of the seeding
\* script next to create, disable, enable, update_url, delete and record).
C1_UniqueShortCode ==
    \A i \in DOMAIN links : \A j \in DOMAIN links :
        i # j => links[i].short_code # links[j].short_code

\* the store holds the seeded Links, a soft-disabled one among them, and a
\* create with a code one of them holds was answered with ConflictError
C1_Witness ==
    /\ \E p \in Procs : /\ resp[p].result = "ConflictError"
                        /\ \E i \in DOMAIN links :
                              /\ i > MaxIds
                              /\ links[i].short_code = resp[p].code
    /\ \E s \in Seeders : seed[s].pc = "done"
    /\ \E i \in DOMAIN links : ~links[i].is_active
    /\ Cardinality(DOMAIN links) >= Len(LINKS)

\* C2: of the create calls that race with the same well-formed code, which
\* no Link holds when they start, exactly one is answered with the Link and
\* every other one with ConflictError (checked under RaceSpec).
C2_ExactlyOneWins ==
    \A code \in CodeInputs :
        LET answered == { p \in Racers : /\ resp[p].code = code
                                         /\ resp[p].result \in {"ok", "ConflictError"} }
            winners  == { p \in answered : resp[p].result = "ok" }
        IN  answered # {} => Cardinality(winners) = 1

\* two racers were answered for the same code, one with the Link and one
\* with ConflictError
C2_Witness ==
    \E p \in Racers : \E q \in Racers :
        /\ resp[p].code = resp[q].code
        /\ resp[p].result = "ok"
        /\ resp[q].result = "ConflictError"

\* C3: in every reachable state the link_id of every ClickEvent is the id
\* of a Link that exists: a record against an id that is no Link's adds no
\* event, and a delete leaves no event of the deleted Link behind.
C3_NoOrphanClickEvents ==
    \A e \in DOMAIN events : events[e].link_id \in DOMAIN links

\* a Link that had click events recorded has been deleted, and the click
\* events of another Link are in the store
C3_Witness ==
    /\ \E i \in 1..(nextId - 1) : i \notin DOMAIN links /\ recorded[i] > 0
    /\ DOMAIN events # {}

\* C4: a step that removes a Link (delete) removes, in the same step, every
\* ClickEvent of that Link and nothing else: afterwards resolve of its
\* short_code finds no Link, its click count is zero, and every other Link
\* and every ClickEvent of another Link is as before.
C4_DeleteCascades ==
    [][\A id \in DOMAIN links : id \notin DOMAIN links' =>
          /\ ResolveIds(links', links[id].short_code) = {}
          /\ TotalCount(events', id) = 0
          /\ DOMAIN links' = DOMAIN links \ {id}
          /\ \A j \in DOMAIN links' : links'[j] = links[j]
          /\ DOMAIN events' = DOMAIN events \ EventsOf(events, id)
          /\ \A e \in DOMAIN events' : events'[e] = events[e]]_vars

\* a Link that had two click events recorded is gone, and so are they,
\* while another Link is in the store
C4_Witness ==
    \E i \in 1..(nextId - 1) :
        /\ i \notin DOMAIN links
        /\ recorded[i] >= 2
        /\ EventsOf(events, i) = {}
        /\ DOMAIN links # {}

\* C5: in every reachable state every Link, whether it came from create or
\* from the seeding script, has a short_code of 3 to 32 characters of the
\* charset, and create answers ValidationError for a code outside the rule
\* (checked under SeedSpec).
C5_ShortCodeRule ==
    /\ \A i \in DOMAIN links : ValidShortCode(links[i].short_code)
    /\ \A code \in CodeInputs : \A url \in UrlInputs :
          ~ValidShortCode(code) => CreateCheck(code, url) = "ValidationError"

\* C6: a step that flips is_active of a Link, and every disable or enable of
\* a Link, changes nothing but is_active and updated_at of that Link: the
\* Link is still there, resolve of its short_code returns it, every other
\* Link is as before and the click events are as before (checked under
\* SeedSpec, where Links have click events and timestamps differ).
C6_SetActiveFrame ==
    [][\A id \in DOMAIN links : \A v \in BOOLEAN :
          (/\ id \in DOMAIN links'
           /\ links'[id].is_active = v
           /\ links[id].is_active # v \/ set_active(id, v))
          => /\ DOMAIN links' = DOMAIN links
             /\ links'[id] = [links[id] EXCEPT !.is_active = v,
                                  !.updated_at = links'[id].updated_at]
             /\ \A j \in DOMAIN links \ {id} : links'[j] = links[j]
             /\ ResolveIds(links', links[id].short_code) = {id}
             /\ events' = events
             /\ \A j \in DOMAIN links :
                   TotalCount(events', j) = TotalCount(events, j)]_vars

\* the seeded Link gh, active when seeded, is soft-disabled; resolve finds
\* it and its seven click events are in the store
C6_Witness ==
    \E i \in DOMAIN links :
        /\ links[i].short_code = <<"g","h">>
        /\ ~links[i].is_active
        /\ links[i].updated_at > links[i].created_at
        /\ ResolveIds(links, <<"g","h">>) = {i}
        /\ TotalCount(events, i) = 7

\* C7: when the redirect path resolves the code of a soft-disabled Link it
\* answers 404 and not the destination URL of that Link, and neither that
\* step nor the answer that follows removes the Link's row or any of its
\* click events.
C7_InactiveNeverRedirects ==
    [][\A p \in Procs :
          /\ (req[p].op = "idle" /\ req'[p].op = "redirect") =>
                LET i == req'[p].link_id
                IN  /\ i \in DOMAIN links
                    /\ links[i].short_code = req'[p].code
                    /\ ~links[i].is_active =>
                          /\ req'[p].status = 404
                          /\ req'[p].location # links[i].original_url
                    /\ links' = links
                    /\ events' = events
          /\ (req[p].op = "redirect" /\ req'[p].op = "idle"
                                     /\ req[p].status = 404) =>
                /\ links' = links
                /\ \A e \in DOMAIN events :
                      e \in DOMAIN events' /\ events'[e] = events[e]]_vars

\* a redirect for the code of a soft-disabled Link with click history has
\* been decided: the answer is 404, the Link and its click event are there
C7_Witness ==
    \E p \in Procs :
        /\ req[p].op = "redirect"
        /\ req[p].status = 404
        /\ req[p].link_id \in DOMAIN links
        /\ ~links[req[p].link_id].is_active
        /\ TotalCount(events, req[p].link_id) > 0

\* C8: the step in which create(code, url) succeeds leaves a Link that
\* resolve(code) returns and whose original_url is url; and in every step
\* that is not an update_url or a delete of a Link, resolve of that Link's
\* short_code keeps returning it with the same original_url.
C8_ResolveAfterCreate ==
    [][/\ \A p \in Procs :
             (/\ req[p].op = "create" /\ req'[p].op = "idle"
              /\ InsertResult(links, req[p].code) = "ok") =>
                 /\ ResolveIds(links', req[p].code) = {nextId}
                 /\ links'[nextId].original_url = req[p].url
       /\ \A i \in DOMAIN links :
             \/ /\ ResolveIds(links', links[i].short_code) = {i}
                /\ links'[i].original_url = links[i].original_url
             \/ delete(i)
             \/ \E url \in UrlInputs : update_url(i, url)]_vars

\* a Link made by create has since been soft-disabled and clicked, a second
\* Link has been created, and resolve still returns the first one with the
\* URL it was created with
C8_Witness ==
    \E i \in DOMAIN links :
        /\ i = 1
        /\ nextId > 2
        /\ ~links[i].is_active
        /\ recorded[i] > 0
        /\ ResolveIds(links, links[i].short_code) = {i}

\* C9: in every reachable state the total click count of every Link is the
\* number of record calls that succeeded for it, whatever creates,
\* disables, enables, URL updates, deletes, records and redirects of other
\* Links ran in between.
C9_CountIsRecorded ==
    \A i \in DOMAIN links : TotalCount(events, i) = recorded[i]

\* a click was recorded for a Link that is in the store, and another Link
\* with a recorded click has been deleted
C9_Witness ==
    \E i \in DOMAIN links : \E j \in 1..(nextId - 1) :
        /\ recorded[i] >= 1
        /\ TotalCount(events, i) = recorded[i]
        /\ j \notin DOMAIN links
        /\ recorded[j] >= 1

\* C10: disable(id) of a Link that is already soft-disabled succeeds, leaves
\* is_active false and sets updated_at to the time of the call, which is
\* never earlier than the value before (checked under SeedSpec).
C10_DisableIdempotent ==
    [][\A id \in DOMAIN links :
          (~links[id].is_active /\ disable(id)) =>
             /\ LookupResult(links, id) = "ok"
             /\ id \in DOMAIN links'
             /\ ~links'[id].is_active
             /\ links'[id].updated_at = now
             /\ links'[id].updated_at >= links[id].updated_at]_vars

\* the seeded Link old-sale, soft-disabled when seeded, is still
\* soft-disabled, and the one store operation that ran next to the script
\* has moved its updated_at from the seeded value to the clock
C10_Witness ==
    \E i \in DOMAIN links :
        /\ links[i].short_code = <<"o","l","d","-","s","a","l","e">>
        /\ ~links[i].is_active
        /\ links[i].original_url = "https://www.example.com/promo/blackfriday-2024"
        /\ links[i].updated_at = now
        /\ budget = 1

\* C11: a create that is rejected leaves the store as it was: the INSERT
\* for a code some Link holds is answered with ConflictError and every Link,
\* the holder included, and every click event stays as before; a call with
\* an empty URL or a malformed code is answered with ValidationError,
\* starts no INSERT and changes no row (checked under SeedSpec).
C11_RejectedCreateChangesNothing ==
    [][\A p \in Procs :
          /\ (/\ req[p].op = "create" /\ req'[p].op = "idle"
              /\ IdsOfCode(links, req[p].code) # {}) =>
                /\ resp'[p].result = "ConflictError"
                /\ links' = links
                /\ events' = events
                /\ nextId' = nextId
          /\ \A code \in CodeInputs : \A url \in UrlInputs :
                (/\ ~ValidShortCode(code) \/ url = ""
                 /\ answered_call(p, code, url)) =>
                   /\ resp'[p].result = "ValidationError"
                   /\ req'[p].op = "idle"
                   /\ links' = links
                   /\ events' = events
                   /\ nextId' = nextId]_vars

\* a create with the code docs was answered with ConflictError while the
\* seeded Link docs is in the store with the URL and timestamps of the seed
C11_Witness ==
    \E p \in Procs : \E i \in DOMAIN links :
        /\ resp[p] = [ code |-> <<"d","o","c","s">>, result |-> "ConflictError" ]
        /\ links[i].short_code = <<"d","o","c","s">>
        /\ links[i].original_url = "https://docs.python.org/3/"
        /\ links[i].is_active
        /\ links[i].created_at < 0
        /\ links[i].updated_at = links[i].created_at

\* C12: the answer of a redirect is what was decided when resolve found the
\* Link (for an active Link: 302 with its original_url), whether the click
\* record that follows succeeds or fails; the failure changes nothing in the
\* store, the success adds exactly one ClickEvent of that Link (checked
\* under RedirectSpec).
C12_RecordFailureKeepsAnswer ==
    [][\A p \in Procs :
          /\ (req[p].op = "idle" /\ req'[p].op = "redirect") =>
                LET i == req'[p].link_id
                IN  links[i].is_active =>
                       /\ req'[p].status = 302
                       /\ req'[p].location = links[i].original_url
          /\ (req[p].op = "redirect" /\ req'[p].op = "idle") =>
                /\ answer'.status = req[p].status
                /\ answer'.location = req[p].location
                /\ links' = links
                /\ IF answer'.recorded
                   THEN /\ DOMAIN events' = DOMAIN events \cup {nextEventId}
                        /\ nextEventId \notin DOMAIN events
                        /\ events'[nextEventId].link_id = req[p].link_id
                        /\ \A e \in DOMAIN events : events'[e] = events[e]
                   ELSE events' = events]_vars

\* a redirect was answered with 302 and the destination although its click
\* record failed: no ClickEvent is in the store
C12_Witness ==
    /\ answer.status = 302
    /\ answer.location \in UrlInputs \ {""}
    /\ ~answer.recorded
    /\ events = << >>

\* C13: the Code Generator never draws more than MaxAttempts candidates and
\* always ends: when it returns a code, the code satisfies the
\* charset/length rule, was the short_code of no Link, differs from every
\* code it made before, and is now the code of a Link; when it fails with
\* CapacityError every one of its MaxAttempts attempts collided and nothing
\* was inserted (checked under GenSpec).
C13_GeneratorTerminates ==
    /\ [][/\ gen'.attempts <= MaxAttempts
          /\ (gen.pc = "try" /\ gen'.pc = "done") =>
                LET c == gen'.made[Len(gen'.made)]
                IN  /\ ValidShortCode(c)
                    /\ IdsOfCode(links, c) = {}
                    /\ \A k \in 1..Len(gen.made) : gen.made[k] # c
                    /\ \E i \in DOMAIN links' \ DOMAIN links :
                          /\ links'[i].short_code = c
                          /\ links'[i].original_url = gen.url
                          /\ ~links'[i].is_custom_code
          /\ (gen.pc = "try" /\ gen'.pc = "failed") =>
                /\ gen.attempts = MaxAttempts
                /\ links' = links]_vars
    /\ (gen.pc = "try") ~> (gen.pc \in {"done", "failed"})

\* the generator made two Links with different codes and then, called
\* again with every candidate taken, failed with CapacityError
C13_Witness ==
    /\ gen.pc = "failed"
    /\ Len(gen.made) = 2
    /\ gen.made[1] # gen.made[2]
    /\ \A c \in GenCodes : IdsOfCode(links, c) # {}

\* C14: every report of GET /health and of get_health_status_async is
\* "healthy" exactly when the database probe succeeds and no Redis client is
\* supplied or its ping succeeds; "database" is always among the checks and
\* "redis" exactly when a client is supplied; GET /health answers 200
\* exactly when the status is "healthy" and 503 otherwise (checked under
\* HealthSpec).
C14_HealthEndpoint ==
    [][(/\ health'.out # health.out
        /\ health'.out.fn \in {"health", "get_health_status_async"}) =>
          LET o == health'.out
          IN  /\ ~o.raised
              /\ o.status \in {"healthy", "degraded"}
              /\ (o.status = "healthy") <=>
                    (health.db = "up" /\ (~o.client \/ health.redis = "up"))
              /\ "database" \in DOMAIN o.checks
              /\ ("redis" \in DOMAIN o.checks) <=> o.client
              /\ o.fn = "health" =>
                    /\ o.http \in {200, 503}
                    /\ (o.http = 200) <=> (o.status = "healthy")]_vars

\* GET /health answered 503 with the database check "error" while the
\* query of the probe fails and the store holds a Link
C14_Witness ==
    /\ health.out.fn = "health"
    /\ health.out.http = 503
    /\ health.out.status = "degraded"
    /\ health.out.checks["database"] = "error"
    /\ health.db = "query_error"
    /\ DOMAIN links # {}

\* C15: health_check never raises, returns True exactly when connecting and
\* the probe query succeed, and leaves every Link and every ClickEvent as it
\* was (checked under HealthSpec).
C15_HealthCheckTotal ==
    [][(\/ health'.out # health.out /\ health'.out.fn = "health_check"
        \/ call_health_check) =>
          /\ ~health'.out.raised
          /\ health'.out.ok <=> (health.db = "up")
          /\ links' = links
          /\ events' = events]_vars

\* health_check returned False while connecting fails, with a Link and a
\* ClickEvent in the store
C15_Witness ==
    /\ health.out.fn = "health_check"
    /\ ~health.out.ok
    /\ ~health.out.raised
    /\ health.db = "connect_error"
    /\ DOMAIN links # {}
    /\ DOMAIN events # {}

\* C19: every report of get_health_status is "degraded" exactly when a
\* dependency passed to it is unreachable, and each dependency passed has
\* an entry in checks that is "ok" exactly when it is reachable (checked
\* under HealthSpec).
C19_SyncStatusReflectsDependencies ==
    [][(/\ health'.out # health.out
        /\ health'.out.fn = "get_health_status") =>
          LET o == health'.out
              unreachable == \/ o.db_arg /\ health.db # "up"
                             \/ o.client /\ health.redis # "up"
          IN  /\ (o.status = "degraded") <=> unreachable
              /\ (o.status = "healthy") <=> ~unreachable
              /\ o.db_arg => /\ "database" \in DOMAIN o.checks
                             /\ (o.checks["database"] = "ok") <=>
                                   (health.db = "up")
              /\ o.client => /\ "redis" \in DOMAIN o.checks
                             /\ (o.checks["redis"] = "ok") <=>
                                   (health.redis = "up")]_vars

\* C16: the session get_db yields to a request is open while the handler
\* runs, is closed when the request has finished and never before, is
\* closed once and not twice, and every open session is eventually closed,
\* whether the handler returned or raised (checked under SessSpec).
C16_SessionClosedOnce ==
    /\ [](\A r \in Requests :
            /\ sess[r].closes <= 1
            /\ sess[r].pc \in {"yielded", "returned", "raised"} =>
                  sess[r].session = "open" /\ sess[r].closes = 0
            /\ sess[r].pc = "finished" =>
                  sess[r].session = "closed" /\ sess[r].closes = 1)
    /\ \A r \in Requests :
          (sess[r].session = "open") ~> (sess[r].session = "closed")

\* one request whose handler raised has finished with its session closed
\* once, while the handler of another one is still running
C16_Witness ==
    \E r \in Requests : \E q \in Requests :
        /\ sess[r].pc = "finished" /\ sess[r].outcome = "raised"
        /\ sess[r].session = "closed" /\ sess[r].closes = 1
        /\ sess[q].pc = "yielded" /\ sess[q].session = "open"


\* C17: seed() is all-or-nothing. The Links and ClickEvents of a run reach
\* the store in the one commit that ends it: while a run has not committed,
\* and after it has raised, none of its rows is in the store. The step in
\* which a run raises changes no Link and no ClickEvent, and it leaves the
\* run's session closed with the flushed rows rolled back.
C17_SeedAllOrNothing ==
    /\ [](\A s \in Seeders :
            /\ seed[s].pc # "done" =>
                  /\ \A i \in 1..Len(LINKS) : SeedId(s, i) \notin DOMAIN links
                  /\ \A k \in 1..Len(CLICK_EVENTS) :
                        SeedEventId(s, k) \notin DOMAIN events
            /\ seed[s].pc = "failed" =>
                  /\ seed[s].tx = << >>
                  /\ seed[s].discarded \cap DOMAIN links = {})
    /\ [][\A s \in Seeders :
            seed[s].pc # "failed" /\ seed'[s].pc = "failed" =>
               /\ links' = links
               /\ events' = events
               /\ seed'[s].discarded = DOMAIN seed[s].tx]_vars

\* a run has raised after it had flushed Links, and none of them is stored
C17_Witness ==
    \E s \in Seeders :
        /\ seed[s].pc = "failed"
        /\ seed[s].discarded # {}
        /\ seed[s].discarded \cap DOMAIN links = {}
        /\ seed[s].tx = << >>


\* C18: seed() is idempotent. A run of seed() that finds every seed Link
\* already stored by a previous run adds no rows when it commits: the set of
\* Links and the number of ClickEvents of each Link are the same after it as
\* before it.
C18_SeedIdempotent ==
    [][\A s \in Seeders : \A t \in Seeders \ {s} :
          ( /\ seed[t].pc = "done"
            /\ seed[s].pc = "commit"
            /\ seed[s].tx = << >>
            /\ \A i \in 1..Len(LINKS) :
                  /\ LINKS[i].short_code \in DOMAIN seed[s].link_map
                  /\ seed[s].link_map[LINKS[i].short_code] = SeedId(t, i)
            /\ seed'[s].pc = "done" )
          => /\ links' = links
             /\ \A id \in DOMAIN links :
                   TotalCount(events', id) = TotalCount(events, id)]_vars

====
